---- MODULE Spec2Model ----
(***************************************************************************)
(* Position and margin accounting of the futures-exchange simulator:       *)
(* PositionInner (new / increase_contracts / decrease_contracts) driving   *)
(* the four-account transaction ledger.                                    *)
(* Beside it, each under a specification of its own: the isolated-margin   *)
(* risk engine (SpecRisk), FuturesTypes::pnl (SpecPnl), Config and         *)
(* mock_exchange (SpecConfig) and the AccTracker (SpecTracker).            *)
(*                                                                         *)
(* Money is a signed integer scaled by 10^DECIMALS (Decimal<I, D>).        *)
(***************************************************************************)
EXTENDS Integers, Sequences, FiniteSets, TLC

\* ------------------------------------------------------------------ bounds
\* number of position operations in one run
MaxOps == 3
\* largest contract quantity of one call, in units of 10^-DECIMALS
MaxQty == 2
\* largest absolute fee of one call, in units of 10^-DECIMALS
MaxFee == 1
\* the wallet endowment the ledger is constructed with, in units of 10^-DECIMALS
StartingBalance == 5

\* the decimal scale D of Decimal<I, D>
DECIMALS == 1
SCALE == 10 ^ DECIMALS

\* 0 is the invalid quantity the assertions reject
Quantities == 0..MaxQty
\* 0 is the invalid price the assertions reject; 0.5, 1.0 and 1.5 Quote
Prices == {0, 5, 10, 15}
ExitPrices == Prices \ {0}
Fees == (0 - MaxFee)..MaxFee
\* Leverage 2 and 1: init_margin_req 0.5 and 1.0
MarginReqs == {SCALE \div 2, SCALE}
Kinds == {"Linear", "Inverse"}

\* ---------------------------------------------------------------- accounts
USER_WALLET_ACCOUNT == "USER_WALLET"
USER_POSITION_MARGIN_ACCOUNT == "USER_POSITION_MARGIN"
EXCHANGE_FEE_ACCOUNT == "EXCHANGE_FEE"
TREASURY_ACCOUNT == "TREASURY"
Accounts ==
  {USER_WALLET_ACCOUNT, USER_POSITION_MARGIN_ACCOUNT, EXCHANGE_FEE_ACCOUNT, TREASURY_ACCOUNT}

VARIABLES
  kind,             \* the futures kind the position is monomorphised for
  init_margin_req,  \* the initial margin requirement every call is given
  debug_build,      \* whether debug_assert! is compiled in
  balances,         \* the ledger: account -> balance
  pos,              \* the PositionInner: quantity, entry_price, outstanding_fees
  status,           \* "ok", or the panic that ended the program
  last,             \* the last call: operation, arguments, transfers it posted
  nops,             \* number of calls made
  fees_passed,      \* sum of the fees given to the completed calls
  pnl_realized,     \* sum of the pnl computed by the completed decreases
  opened,           \* the last PositionInner::new: arguments, ledger before it, calls since
  risk,             \* the risk engine's last check: account, market state, outcome
  law,              \* an evaluation of FuturesTypes::pnl: arguments and results
  config,           \* the last Config::new: margin rates, outcome, Exchange built from it
  tracker           \* the AccTracker, and the calls logged to it so far

posVars ==
  <<kind, init_margin_req, debug_build, balances, pos, status, last, nops,
    fees_passed, pnl_realized, opened>>

vars == <<posVars, risk, law, config, tracker>>

\* ------------------------------------------------------- decimal arithmetic
Abs(x) == IF x < 0 THEN 0 - x ELSE x

\* n / d for d > 0, rounded half to even
RoundDiv(n, d) ==
  LET q == n \div d
      r == n % d
  IN  IF 2 * r < d THEN q
      ELSE IF 2 * r > d THEN q + 1
      ELSE IF q % 2 = 0 THEN q ELSE q + 1

\* Decimal * Decimal
DecMul(a, b) == RoundDiv(a * b, SCALE)

\* Decimal / Decimal, b > 0
DecDiv(a, b) == IF b > 0 THEN RoundDiv(a * SCALE, b) ELSE 0

\* notional of qty contracts at price, in the margin currency
convert_from(qty, price) ==
  IF kind = "Linear" THEN DecMul(qty, price) ELSE DecDiv(qty, price)

\* pnl subtracting the exit notional from the entry notional for both kinds
pnl_legs_swapped(entry_price, exit_price, contract_qty) ==
  convert_from(contract_qty, entry_price) - convert_from(contract_qty, exit_price)

\* pnl dropping the sign of the quantity
pnl_unsigned(entry_price, exit_price, contract_qty) ==
  IF kind = "Linear"
  THEN convert_from(Abs(contract_qty), exit_price) - convert_from(Abs(contract_qty), entry_price)
  ELSE convert_from(Abs(contract_qty), entry_price) - convert_from(Abs(contract_qty), exit_price)

\* pnl dropping the sign of the quantity in the exit leg only
pnl_unsigned_exit_leg(entry_price, exit_price, contract_qty) ==
  IF kind = "Linear"
  THEN convert_from(Abs(contract_qty), exit_price) - convert_from(contract_qty, entry_price)
  ELSE convert_from(contract_qty, entry_price) - convert_from(Abs(contract_qty), exit_price)

pnl(entry_price, exit_price, contract_qty) ==
  IF kind = "Linear"
  THEN convert_from(contract_qty, exit_price) - convert_from(contract_qty, entry_price)
  ELSE convert_from(contract_qty, entry_price) - convert_from(contract_qty, exit_price)

new_weighted_price(price_0, weight_0, price_1, weight_1) ==
  RoundDiv(price_0 * weight_0 + price_1 * weight_1, weight_0 + weight_1)

\* ------------------------------------------------------------------ ledger
\* Transaction::new(debit_account, credit_account, amount): amount leaves the
\* credit account and arrives in the debit account
Transaction(debit, credit, amount) ==
  [debit |-> debit, credit |-> credit, amount |-> amount]

UserAccounts == {USER_WALLET_ACCOUNT, USER_POSITION_MARGIN_ACCOUNT}

InsufficientBalance(bal, t) ==
  t.credit \in UserAccounts /\ bal[t.credit] - t.amount < 0

\* the ledger posting only the arriving leg of a transfer
Posted_debit_leg_only(bal, t) ==
  [a \in Accounts |-> bal[a] + (IF a = t.debit THEN t.amount ELSE 0)]

Posted(bal, t) ==
  [a \in Accounts |->
     bal[a] + (IF a = t.debit THEN t.amount ELSE 0)
            - (IF a = t.credit THEN t.amount ELSE 0)]

\* ------------------------------------------------- a call in progress
\* st: the position and ledger as the call has left them so far, the
\* transfers it has posted, and "ok" or the panic that stopped it
Call(p, bal) == [pos |-> p, bal |-> bal, journal |-> <<>>, status |-> "ok"]

Require(st, cond, why) ==
  IF st.status = "ok" /\ ~cond THEN [st EXCEPT !.status = why] ELSE st

\* accounting.create_margin_transfer(transaction).expect(..)
create_margin_transfer(st, t) ==
  IF st.status # "ok" THEN st
  ELSE IF InsufficientBalance(st.bal, t) THEN [st EXCEPT !.status = "panic_transfer"]
  ELSE [st EXCEPT !.bal = Posted(st.bal, t), !.journal = Append(st.journal, t)]

Default == [quantity |-> 0, entry_price |-> 0, outstanding_fees |-> 0]

\* new locking the whole notional, init_margin_req forgotten
new_locks_notional(st, quantity, entry_price, fees) ==
  LET s1 == Require(st, quantity > 0 /\ entry_price > 0, "panic_assert")
      s4 == create_margin_transfer(
              s1, Transaction(USER_POSITION_MARGIN_ACCOUNT, USER_WALLET_ACCOUNT,
                              convert_from(quantity, entry_price)))
  IN  IF s4.status = "ok"
      THEN [s4 EXCEPT !.pos = [quantity |-> quantity, entry_price |-> entry_price,
                               outstanding_fees |-> fees]]
      ELSE s4

\* PositionInner::new
new(st, quantity, entry_price, fees) ==
  LET s1 == Require(st, quantity > 0, "panic_assert")
      s2 == Require(s1, entry_price > 0, "panic_assert")
      s3 == Require(s2, debug_build => (init_margin_req > 0 /\ init_margin_req <= SCALE),
                    "panic_debug")
      margin == DecMul(convert_from(quantity, entry_price), init_margin_req)
      s4 == create_margin_transfer(
              s3, Transaction(USER_POSITION_MARGIN_ACCOUNT, USER_WALLET_ACCOUNT, margin))
  IN  IF s4.status = "ok"
      THEN [s4 EXCEPT !.pos = [quantity |-> quantity, entry_price |-> entry_price,
                               outstanding_fees |-> fees]]
      ELSE s4

\* increase_contracts assigning the fee instead of accruing it
increase_contracts_overwrites_fees(st, qty, entry_price, fees) ==
  LET s2 == Require(st, qty > 0 /\ entry_price > 0, "panic_assert")
      s3 == IF s2.status # "ok" THEN s2
            ELSE [s2 EXCEPT !.pos = [quantity |-> st.pos.quantity + qty,
                                     entry_price |->
                                       new_weighted_price(st.pos.entry_price,
                                                          st.pos.quantity, entry_price, qty),
                                     outstanding_fees |-> fees]]
  IN  create_margin_transfer(
        s3, Transaction(USER_POSITION_MARGIN_ACCOUNT, USER_WALLET_ACCOUNT,
                        DecMul(convert_from(qty, entry_price), init_margin_req)))

\* increase_contracts without its two assertions
increase_contracts_unchecked(st, qty, entry_price, fees) ==
  LET s3 == [st EXCEPT !.pos = [quantity |-> st.pos.quantity + qty,
                                entry_price |->
                                  IF st.pos.quantity + qty > 0
                                  THEN new_weighted_price(st.pos.entry_price,
                                                          st.pos.quantity, entry_price, qty)
                                  ELSE st.pos.entry_price,
                                outstanding_fees |-> st.pos.outstanding_fees + fees]]
  IN  create_margin_transfer(
        s3, Transaction(USER_POSITION_MARGIN_ACCOUNT, USER_WALLET_ACCOUNT,
                        DecMul(convert_from(qty, entry_price), init_margin_req)))

\* increase_contracts asserting the quantity but not the price
increase_contracts_any_price(st, qty, entry_price, fees) ==
  LET s1 == Require(st, qty > 0, "panic_assert")
      s3 == IF s1.status # "ok" THEN s1
            ELSE [s1 EXCEPT !.pos = [quantity |-> st.pos.quantity + qty,
                                     entry_price |->
                                       new_weighted_price(st.pos.entry_price,
                                                          st.pos.quantity, entry_price, qty),
                                     outstanding_fees |-> st.pos.outstanding_fees + fees]]
  IN  create_margin_transfer(
        s3, Transaction(USER_POSITION_MARGIN_ACCOUNT, USER_WALLET_ACCOUNT,
                        DecMul(convert_from(qty, entry_price), init_margin_req)))

\* increase_contracts giving the old entry price a weight of at least qty, also
\* when the position is flat
increase_contracts_averages_stale_price(st, qty, entry_price, fees) ==
  LET s1 == Require(st, qty > 0, "panic_assert")
      s2 == Require(s1, entry_price > 0, "panic_assert")
      s3 == IF s2.status # "ok" THEN s2
            ELSE [s2 EXCEPT !.pos = [quantity |-> st.pos.quantity + qty,
                                     entry_price |->
                                       new_weighted_price(st.pos.entry_price,
                                                          st.pos.quantity + qty,
                                                          entry_price, qty),
                                     outstanding_fees |-> st.pos.outstanding_fees + fees]]
  IN  create_margin_transfer(
        s3, Transaction(USER_POSITION_MARGIN_ACCOUNT, USER_WALLET_ACCOUNT,
                        DecMul(convert_from(qty, entry_price), init_margin_req)))

\* PositionInner::increase_contracts
increase_contracts(st, qty, entry_price, fees) ==
  LET s1 == Require(st, qty > 0, "panic_assert")
      s2 == Require(s1, entry_price > 0, "panic_assert")
      value == convert_from(qty, entry_price)
      new_entry_price ==
        new_weighted_price(st.pos.entry_price, st.pos.quantity, entry_price, qty)
      s3 == IF s2.status # "ok" THEN s2
            ELSE [s2 EXCEPT !.pos = [quantity |-> st.pos.quantity + qty,
                                     entry_price |-> new_entry_price,
                                     outstanding_fees |-> st.pos.outstanding_fees + fees]]
      margin == DecMul(value, init_margin_req)
  IN  create_margin_transfer(
        s3, Transaction(USER_POSITION_MARGIN_ACCOUNT, USER_WALLET_ACCOUNT, margin))

\* one transfer for either sign: a loss posted as a negative profit
settle_pnl_signed_amount(st, realized) ==
  IF realized # 0
  THEN create_margin_transfer(st, Transaction(USER_WALLET_ACCOUNT, TREASURY_ACCOUNT, realized))
  ELSE st

\* decrease_contracts: the realized profit or loss against the treasury
settle_pnl(st, realized) ==
  IF realized > 0
  THEN create_margin_transfer(st, Transaction(USER_WALLET_ACCOUNT, TREASURY_ACCOUNT, realized))
  ELSE IF realized < 0
  THEN create_margin_transfer(
         st, Transaction(TREASURY_ACCOUNT, USER_WALLET_ACCOUNT, Abs(realized)))
  ELSE st

\* decrease_contracts: the margin of the removed contracts back to the wallet
free_margin(st, qty, entry_price) ==
  LET margin_to_free == DecMul(convert_from(qty, entry_price), init_margin_req)
      s1 == Require(st, debug_build => margin_to_free > 0, "panic_debug")
  IN  create_margin_transfer(
        s1, Transaction(USER_WALLET_ACCOUNT, USER_POSITION_MARGIN_ACCOUNT, margin_to_free))

\* the accrued fees paid out of the fee account instead of into it
settle_fees_reversed(st) ==
  IF st.status = "ok" /\ st.pos.outstanding_fees > 0
  THEN LET s1 == create_margin_transfer(
                   st, Transaction(USER_WALLET_ACCOUNT, EXCHANGE_FEE_ACCOUNT,
                                   st.pos.outstanding_fees))
       IN  IF s1.status = "ok" THEN [s1 EXCEPT !.pos.outstanding_fees = 0] ELSE s1
  ELSE st

\* decrease_contracts: the accrued fees, when positive
settle_fees(st) ==
  IF st.status = "ok" /\ st.pos.outstanding_fees > 0
  THEN LET s1 == create_margin_transfer(
                   st, Transaction(EXCHANGE_FEE_ACCOUNT, USER_WALLET_ACCOUNT,
                                   st.pos.outstanding_fees))
       IN  IF s1.status = "ok" THEN [s1 EXCEPT !.pos.outstanding_fees = 0] ELSE s1
  ELSE st

\* the direction multiplier ignored: every decrease valued as a long
realized_pnl_as_long(entry_price, liquidation_price, qty, direction_multiplier) ==
  pnl(entry_price, liquidation_price, qty)

\* the pnl a decrease computes
realized_pnl(entry_price, liquidation_price, qty, direction_multiplier) ==
  pnl(entry_price, liquidation_price, IF direction_multiplier = 1 THEN qty ELSE 0 - qty)

\* decrease_contracts asserting its preconditions after it has updated the fields
decrease_contracts_checks_late(st, qty, liquidation_price, direction_multiplier, fees) ==
  LET s1 == [st EXCEPT !.pos.quantity = @ - qty, !.pos.outstanding_fees = @ + fees]
      s2 == Require(s1, qty > 0 /\ qty <= st.pos.quantity, "panic_assert")
      s3 == Require(s2, debug_build => direction_multiplier \in {1, -1}, "panic_debug")
      s5 == settle_pnl(s3, realized_pnl(st.pos.entry_price, liquidation_price, qty,
                                        direction_multiplier))
      s6 == free_margin(s5, qty, st.pos.entry_price)
  IN  settle_fees(s6)

\* decrease_contracts resetting entry_price when the position becomes flat
decrease_contracts_resets_when_flat(st, qty, liquidation_price, direction_multiplier, fees) ==
  LET s1 == Require(st, qty > 0, "panic_assert")
      s2 == Require(s1, qty <= st.pos.quantity, "panic_assert")
      s3 == Require(s2, debug_build => direction_multiplier \in {1, -1}, "panic_debug")
      entry_price == st.pos.entry_price
      s4 == IF s3.status # "ok" THEN s3
            ELSE [s3 EXCEPT !.pos.quantity = @ - qty, !.pos.outstanding_fees = @ + fees,
                            !.pos.entry_price = IF st.pos.quantity = qty THEN 0 ELSE @]
      s5 == settle_pnl(s4, realized_pnl(entry_price, liquidation_price, qty,
                                        direction_multiplier))
      s6 == free_margin(s5, qty, entry_price)
  IN  settle_fees(s6)

\* decrease_contracts releasing the margin before it settles the pnl
decrease_contracts_frees_margin_first(st, qty, liquidation_price, direction_multiplier, fees) ==
  LET s1 == Require(st, qty > 0, "panic_assert")
      s2 == Require(s1, qty <= st.pos.quantity, "panic_assert")
      s3 == Require(s2, debug_build => direction_multiplier \in {1, -1}, "panic_debug")
      entry_price == st.pos.entry_price
      s4 == IF s3.status # "ok" THEN s3
            ELSE [s3 EXCEPT !.pos.quantity = @ - qty, !.pos.outstanding_fees = @ + fees]
      s5 == free_margin(s4, qty, entry_price)
      s6 == settle_pnl(s5, realized_pnl(entry_price, liquidation_price, qty,
                                        direction_multiplier))
  IN  settle_fees(s6)

\* PositionInner::decrease_contracts
decrease_contracts(st, qty, liquidation_price, direction_multiplier, fees) ==
  LET s1 == Require(st, qty > 0, "panic_assert")
      s2 == Require(s1, qty <= st.pos.quantity, "panic_assert")
      s3 == Require(s2, debug_build => direction_multiplier \in {1, -1}, "panic_debug")
      entry_price == st.pos.entry_price
      s4 == IF s3.status # "ok" THEN s3
            ELSE [s3 EXCEPT !.pos.quantity = @ - qty, !.pos.outstanding_fees = @ + fees]
      s5 == settle_pnl(s4, realized_pnl(entry_price, liquidation_price, qty,
                                        direction_multiplier))
      s6 == free_margin(s5, qty, entry_price)
  IN  settle_fees(s6)

\* ------------------------------------------------------------------ actions
\* the components a specification does not exercise stay as constructed
NoRisk == [size |-> 0, position_margin |-> 0, mid_price |-> 0, check |-> "none",
           notional_value |-> 0, leverage |-> 0, outcome |-> "none"]
NoLaw == [entry |-> 0, exit |-> 0, qty |-> 0, result |-> 0, mirrored |-> 0,
          evaluated |-> FALSE]
NoConfig == [initial_margin |-> 0, maintenance_margin |-> 0, outcome |-> "none",
             by |-> "none", exchange |-> FALSE, panicked |-> FALSE]
NoTracker == [wallet_balance |-> 0, total_rpnl |-> 0, num_trades |-> 0, num_buys |-> 0,
              total_turnover |-> 0, wb_high |-> 0,
              max_drawdown |-> [num |-> 0, den |-> 1], calls |-> 0,
              starting_wb |-> 0, trades |-> <<>>, rpnls |-> <<>>]

\* the ledger and the position as constructed, before any call
Constructed ==
  /\ balances = [a \in Accounts |-> IF a = USER_WALLET_ACCOUNT THEN StartingBalance ELSE 0]
  /\ pos = Default
  /\ status = "ok"
  /\ last = [op |-> "none", qty |-> 0, price |-> 0, fee |-> 0, mult |-> 0,
             journal |-> <<>>]
  /\ nops = 0
  /\ fees_passed = 0
  /\ pnl_realized = 0
  /\ opened = [qty |-> 0, price |-> 0, fee |-> 0, bal |-> balances, since |-> 2]

InitPosition ==
  /\ kind \in Kinds
  /\ init_margin_req \in MarginReqs
  /\ debug_build \in BOOLEAN
  /\ Constructed

\* the position of a specification that makes no position call
PositionIdle ==
  /\ init_margin_req = SCALE
  /\ debug_build = FALSE
  /\ Constructed

Init ==
  /\ InitPosition
  /\ risk = NoRisk
  /\ law = NoLaw
  /\ config = NoConfig
  /\ tracker = NoTracker

Min(a, b) == IF a < b THEN a ELSE b

\* what every call leaves behind: r is the call as it ended
Ended(r, op, qty, price, fee, mult) ==
  /\ pos' = r.pos
  /\ balances' = r.bal
  /\ status' = r.status
  /\ last' = [op |-> op, qty |-> qty, price |-> price, fee |-> fee, mult |-> mult,
              journal |-> r.journal]
  /\ nops' = nops + 1
  /\ fees_passed' = IF r.status = "ok" THEN fees_passed + fee ELSE fees_passed
  /\ UNCHANGED <<kind, init_margin_req, debug_build, risk, law, config, tracker>>

\* a position is opened when there is none
New(qty, price, fee) ==
  /\ status = "ok"
  /\ nops < MaxOps
  /\ pos.quantity = 0
  /\ Ended(new(Call(pos, balances), qty, price, fee), "new", qty, price, fee, 0)
  /\ opened' = [qty |-> qty, price |-> price, fee |-> fee, bal |-> balances, since |-> 0]
  /\ UNCHANGED pnl_realized

IncreaseContracts(qty, price, fee) ==
  /\ status = "ok"
  /\ nops < MaxOps
  /\ Ended(increase_contracts(Call(pos, balances), qty, price, fee),
           "increase", qty, price, fee, 0)
  /\ opened' = [opened EXCEPT !.since = Min(@ + 1, 2)]
  /\ UNCHANGED pnl_realized

DecreaseContracts(qty, price, mult, fee) ==
  LET r == decrease_contracts(Call(pos, balances), qty, price, mult, fee)
  IN  /\ status = "ok"
      /\ nops < MaxOps
      /\ Ended(r, "decrease", qty, price, fee, mult)
      /\ opened' = [opened EXCEPT !.since = Min(@ + 1, 2)]
      /\ pnl_realized' =
           IF r.status = "ok"
           THEN pnl_realized + realized_pnl(pos.entry_price, price, qty, mult)
           ELSE pnl_realized

Next ==
  \/ \E qty \in Quantities, price \in Prices, fee \in Fees : New(qty, price, fee)
  \/ \E qty \in Quantities, price \in Prices, fee \in Fees :
       IncreaseContracts(qty, price, fee)
  \/ \E qty \in Quantities, price \in ExitPrices, mult \in {1, -1}, fee \in Fees :
       DecreaseContracts(qty, price, mult, fee)

Spec == Init /\ [][Next]_vars

\* ------------------------------------------------------------- risk engine
\* the maintenance margin rate of the contract specification, in percent
MaintenanceRatePct == 2

\* position sizes 1 and 5 contracts
Sizes == {1 * SCALE, 5 * SCALE}
\* position margins 1, 100 and 500
PositionMargins == {1 * SCALE, 100 * SCALE, 500 * SCALE}
\* mid prices 1, 81 and 100
MidPrices == {1 * SCALE, 81 * SCALE, 100 * SCALE}
\* notional values and leverages handed to check_required_margin
NotionalValues == {1 * SCALE, 500 * SCALE}
Leverages == {1, 5}

\* IsolatedMarginRiskEngine::check_required_margin: todo!()
check_required_margin(account, notional_value, leverage) == "panic_todo"

\* IsolatedMarginRiskEngine::check_maintenance_margin
check_maintenance_margin(mid_price, account) ==
  LET pos_value == convert_from(account.size, mid_price)
  IN  IF pos_value < account.position_margin THEN "Liquidate" ELSE "Ok"

InitRisk ==
  /\ kind \in Kinds
  /\ PositionIdle
  /\ risk \in [size : Sizes, position_margin : PositionMargins,
               mid_price : {100 * SCALE},
               check : {"none"}, notional_value : {0}, leverage : {0},
               outcome : {"none"}]
  /\ law = NoLaw
  /\ config = NoConfig
  /\ tracker = NoTracker

\* the market moves: a new mid price, not yet checked
UpdateMidPrice(mid_price) ==
  /\ risk.outcome # "panic_todo"
  /\ mid_price # risk.mid_price
  /\ risk' = [risk EXCEPT !.mid_price = mid_price, !.check = "none", !.outcome = "none"]
  /\ UNCHANGED <<posVars, law, config, tracker>>

CheckMaintenanceMargin ==
  /\ risk.outcome # "panic_todo"
  /\ risk' = [risk EXCEPT !.check = "maintenance",
                          !.outcome = check_maintenance_margin(risk.mid_price, risk)]
  /\ UNCHANGED <<posVars, law, config, tracker>>

CheckRequiredMargin(notional_value, leverage) ==
  /\ risk.outcome # "panic_todo"
  /\ risk' = [risk EXCEPT !.check = "required",
                          !.notional_value = notional_value,
                          !.leverage = leverage,
                          !.outcome = check_required_margin(risk, notional_value, leverage)]
  /\ UNCHANGED <<posVars, law, config, tracker>>

NextRisk ==
  \/ \E mid_price \in MidPrices : UpdateMidPrice(mid_price)
  \/ CheckMaintenanceMargin
  \/ \E notional_value \in NotionalValues, leverage \in Leverages :
       CheckRequiredMargin(notional_value, leverage)

SpecRisk == InitRisk /\ [][NextRisk]_vars

\* ------------------------------------------------------- FuturesTypes::pnl
\* largest entry and exit price, in units of 10^-DECIMALS
MaxPnlPrice == 15
\* largest absolute contract quantity, in units of 10^-DECIMALS
MaxPnlQty == 3

PnlPrices == 1..MaxPnlPrice
PnlQtys == (0 - MaxPnlQty)..MaxPnlQty

InitPnl ==
  /\ kind \in Kinds
  /\ PositionIdle
  /\ risk = NoRisk
  /\ law \in [entry : PnlPrices, exit : PnlPrices, qty : PnlQtys,
              result : {0}, mirrored : {0}, evaluated : {FALSE}]
  /\ config = NoConfig
  /\ tracker = NoTracker

\* ft.pnl(entry, exit, qty) and ft.pnl(entry, exit, -qty), as the tests pair them
EvalPnl ==
  /\ ~law.evaluated
  /\ law' = [law EXCEPT !.result = pnl(law.entry, law.exit, law.qty),
                        !.mirrored = pnl(law.entry, law.exit, 0 - law.qty),
                        !.evaluated = TRUE]
  /\ UNCHANGED <<posVars, risk, config, tracker>>

NextPnl == EvalPnl

SpecPnl == InitPnl /\ [][NextPnl]_vars

\* ------------------------------------------------------------------ Config
\* largest margin rate a caller configures, in percent
MaxRatePct == 10
\* the initial margin rate of mock_exchange's contract specification, in percent
InitialRatePct == 1

RatesPct == 1..MaxRatePct

\* Config::new, as far as the margin rates of the contract specification go:
\* the fees, the balance, the leverage and the filters given are valid
Config_new(contract_specification) ==
  IF contract_specification.maintenance_margin >= contract_specification.initial_margin
  THEN "InvalidMargin"
  ELSE "Ok"

\* what a caller of Config::new holds afterwards
Configured(contract_specification, by) ==
  [initial_margin |-> contract_specification.initial_margin,
   maintenance_margin |-> contract_specification.maintenance_margin,
   outcome |-> Config_new(contract_specification),
   by |-> by, exchange |-> FALSE, panicked |-> FALSE]

\* mock_exchange taking the contract specification as the configuration,
\* whatever Config::new returned
mock_exchange_unchecked ==
  [Configured([initial_margin |-> InitialRatePct,
               maintenance_margin |-> MaintenanceRatePct], "mock_exchange")
     EXCEPT !.exchange = TRUE]

\* mock_exchange(): Config::new(..).unwrap(), then Exchange::new
mock_exchange ==
  LET contract_specification == [initial_margin |-> InitialRatePct,
                                 maintenance_margin |-> MaintenanceRatePct]
      c == Configured(contract_specification, "mock_exchange")
  IN  IF c.outcome = "Ok"
      THEN [c EXCEPT !.exchange = TRUE]
      ELSE [c EXCEPT !.panicked = TRUE]

InitConfig ==
  /\ kind = "Linear"
  /\ PositionIdle
  /\ risk = NoRisk
  /\ law = NoLaw
  /\ config = NoConfig
  /\ tracker = NoTracker

\* a caller builds a Config and keeps the Result
ConfigNew(initial_margin, maintenance_margin) ==
  /\ ~config.panicked
  /\ config' = Configured([initial_margin |-> initial_margin,
                           maintenance_margin |-> maintenance_margin], "caller")
  /\ UNCHANGED <<posVars, risk, law, tracker>>

\* Exchange::new(acc_tracker, config): there is a Config only in an Ok
ExchangeNew ==
  /\ ~config.panicked
  /\ config.outcome = "Ok"
  /\ ~config.exchange
  /\ config' = [config EXCEPT !.exchange = TRUE]
  /\ UNCHANGED <<posVars, risk, law, tracker>>

MockExchange ==
  /\ ~config.panicked
  /\ config' = mock_exchange
  /\ UNCHANGED <<posVars, risk, law, tracker>>

NextConfig ==
  \/ \E initial_margin \in RatesPct, maintenance_margin \in RatesPct :
       ConfigNew(initial_margin, maintenance_margin)
  \/ ExchangeNew
  \/ MockExchange

SpecConfig == InitConfig /\ [][NextConfig]_vars

\* -------------------------------------------------------------- AccTracker
\* number of log_rpnl and log_trade calls in one run
MaxLogs == 4
\* largest absolute realized pnl of one log_rpnl call
MaxRpnl == 2
\* largest absolute starting wallet balance
MaxStartingWb == 2
\* largest size of one logged trade
MaxTradeSize == 2

\* significant bits of the binary floating-point type the tracker computes in
MantissaBits == 2

\* the unit in the last place of a float of magnitude a, searched from u up
RECURSIVE UlpFrom(_, _)
UlpFrom(a, u) == IF a < (2 ^ MantissaBits) * u THEN u ELSE UlpFrom(a, 2 * u)

\* x rounded to the nearest float, ties to the even mantissa; amounts are whole
\* multiples of the smallest unit, so the floats are the integers with at most
\* MantissaBits significant bits
f64(x) == LET u == UlpFrom(Abs(x), 1) IN RoundDiv(x, u) * u

\* starting_wb is any f64: zero and negative balances included
StartingWbs == {f64(x) : x \in (0 - MaxStartingWb)..MaxStartingWb}
Rpnls == {f64(x) : x \in (0 - MaxRpnl)..MaxRpnl}
Sides == {"Buy", "Sell"}
TradeSizes == {f64(x) : x \in 1..MaxTradeSize}

\* an f64 quotient num / den, kept exact with den >= 0: 0 / 0 is NaN and
\* num / 0 with num > 0 is +infinity. Rounding a quotient is monotone, and
\* max_drawdown is only ever compared and copied, so it is kept as the exact
\* quotient whose rounding the f64 is
Quotient(num, den) ==
  IF den < 0 THEN [num |-> 0 - num, den |-> 0 - den] ELSE [num |-> num, den |-> den]
IsNaN(a) == a.num = 0 /\ a.den = 0
\* a > b of f64: false when either side is NaN
Gt(a, b) == ~IsNaN(a) /\ ~IsNaN(b) /\ a.num * b.den > b.num * a.den

\* AccTracker::new
AccTracker_new(starting_wb) ==
  [wallet_balance |-> starting_wb, total_rpnl |-> 0, num_trades |-> 0, num_buys |-> 0,
   total_turnover |-> 0, wb_high |-> starting_wb,
   max_drawdown |-> Quotient(0, 1), calls |-> 0,
   starting_wb |-> starting_wb, trades |-> <<>>, rpnls |-> <<>>]

\* log_rpnl overwriting max_drawdown with the current drawdown
log_rpnl_last_drawdown(t, rpnl) ==
  LET wallet_balance == f64(t.wallet_balance + rpnl)
      wb_high == IF wallet_balance > t.wb_high THEN wallet_balance ELSE t.wb_high
      dd == Quotient(f64(wb_high - wallet_balance), wb_high)
  IN  [t EXCEPT !.total_rpnl = f64(@ + rpnl),
                !.wallet_balance = wallet_balance,
                !.wb_high = wb_high,
                !.max_drawdown = IF IsNaN(dd) THEN @ ELSE dd]

\* AccTracker::log_rpnl
log_rpnl(t, rpnl) ==
  LET wallet_balance == f64(t.wallet_balance + rpnl)
      wb_high == IF wallet_balance > t.wb_high THEN wallet_balance ELSE t.wb_high
      dd == Quotient(f64(wb_high - wallet_balance), wb_high)
  IN  [t EXCEPT !.total_rpnl = f64(@ + rpnl),
                !.wallet_balance = wallet_balance,
                !.wb_high = wb_high,
                !.max_drawdown = IF Gt(dd, @) THEN dd ELSE @]

\* log_trade counting every trade as a buy
log_trade_every_side_a_buy(t, side, size) ==
  [t EXCEPT !.total_turnover = f64(@ + size),
            !.num_trades = @ + 1,
            !.num_buys = @ + 1]

\* AccTracker::log_trade
log_trade(t, side, size) ==
  [t EXCEPT !.total_turnover = f64(@ + size),
            !.num_trades = @ + 1,
            !.num_buys = IF side = "Buy" THEN @ + 1 ELSE @]

\* AccTracker::buy_ratio: num_buys as f64 / num_trades as f64
buy_ratio(t) == Quotient(t.num_buys, t.num_trades)

InitTracker ==
  /\ kind = "Linear"
  /\ PositionIdle
  /\ risk = NoRisk
  /\ law = NoLaw
  /\ config = NoConfig
  /\ \E starting_wb \in StartingWbs : tracker = AccTracker_new(starting_wb)

LogRpnl(rpnl) ==
  /\ tracker.calls < MaxLogs
  /\ tracker' = [log_rpnl(tracker, rpnl) EXCEPT !.calls = @ + 1,
                                                !.rpnls = Append(@, rpnl)]
  /\ UNCHANGED <<posVars, risk, law, config>>

LogTrade(side, size) ==
  /\ tracker.calls < MaxLogs
  /\ tracker' = [log_trade(tracker, side, size)
                   EXCEPT !.calls = @ + 1,
                          !.trades = Append(@, [side |-> side, size |-> size])]
  /\ UNCHANGED <<posVars, risk, law, config>>

NextTracker ==
  \/ \E rpnl \in Rpnls : LogRpnl(rpnl)
  \/ \E side \in Sides, size \in TradeSizes : LogTrade(side, size)

SpecTracker == InitTracker /\ [][NextTracker]_vars

\* ------------------------------------------------------------------ claims
Wallet == balances[USER_WALLET_ACCOUNT]
PositionMargin == balances[USER_POSITION_MARGIN_ACCOUNT]
ExchangeFee == balances[EXCHANGE_FEE_ACCOUNT]
Treasury == balances[TREASURY_ACCOUNT]

Completed(op) == last.op = op /\ status = "ok"
\* a decrease has completed and left the position flat
FlatAfterDecrease == Completed("decrease") /\ pos.quantity = 0

\* the transfers of the last call that touch account a
Touching(a) == {i \in 1..Len(last.journal) :
                  last.journal[i].debit = a \/ last.journal[i].credit = a}

\* C1: after any sequence of new, increase_contracts and decrease_contracts the
\* balances of the four accounts sum to the starting wallet balance.
C1_ValueConservation ==
  Wallet + PositionMargin + ExchangeFee + Treasury = StartingBalance

\* C1 witness: a completed decrease after which all four accounts hold a
\* non-zero balance.
C1_Witness ==
  /\ Completed("decrease")
  /\ Wallet # 0 /\ PositionMargin # 0 /\ ExchangeFee # 0 /\ Treasury # 0

\* C2: the wallet and the position margin are never negative, whatever the
\* sequence of opens, increases and decreases (losses and fee settlement
\* included).
C2_UserBalancesNonNegative == Wallet >= 0 /\ PositionMargin >= 0

\* C2 witness: a completed decrease that realized a loss and settled fees and
\* left the wallet empty.
C2_Witness ==
  /\ Completed("decrease")
  /\ \E i \in Touching(TREASURY_ACCOUNT) : last.journal[i].debit = TREASURY_ACCOUNT
  /\ Touching(EXCHANGE_FEE_ACCOUNT) # {}
  /\ Wallet = 0

\* C3 (as claimed): after a decrease that brings the quantity to zero,
\* outstanding_fees is zero, also when the accrued fees are zero or negative.
C3_FlatMeansNoOutstandingFees == FlatAfterDecrease => pos.outstanding_fees = 0

\* C4 (as claimed): whenever the quantity is zero after a decrease, the
\* position margin balance is zero, in linear and in inverse markets.
C4_FlatMeansNoPositionMargin == FlatAfterDecrease => PositionMargin = 0

\* C4, linear markets alone
C4_FlatMeansNoPositionMargin_Linear ==
  (FlatAfterDecrease /\ kind = "Linear") => PositionMargin = 0

\* C4, inverse markets alone
C4_FlatMeansNoPositionMargin_Inverse ==
  (FlatAfterDecrease /\ kind = "Inverse") => PositionMargin = 0

\* C5 (as claimed): once the position has been fully closed, the wallet holds
\* the starting balance plus the realized pnl minus every fee passed to new,
\* increase_contracts and decrease_contracts.
C5_WalletAfterClose ==
  FlatAfterDecrease => Wallet = StartingBalance + pnl_realized - fees_passed

\* the last two calls were new(q, p, fee 0) and decrease_contracts(q, p, fee 0)
RoundTrip ==
  /\ last.op = "decrease"
  /\ opened.since = 1
  /\ opened.fee = 0 /\ last.fee = 0
  /\ opened.qty > 0 /\ opened.price > 0
  /\ last.qty = opened.qty
  /\ last.price = opened.price

\* C6: opening q at p with zero fee and decreasing the full q at p with zero
\* fee, with either direction multiplier, returns all four accounts to the
\* balances they had before the open.
C6_RoundTrip == RoundTrip => balances = opened.bal

\* C6 witness: a completed round trip of a short, which locked margin on the
\* way.
C6_Witness ==
  /\ RoundTrip /\ status = "ok" /\ last.mult = -1
  /\ \E i \in Touching(USER_POSITION_MARGIN_ACCOUNT) : last.journal[i].amount > 0

\* C7: a completed open or increase by (qty, price, fee) adds qty to quantity
\* and fee to outstanding_fees, sets entry_price to the quantity-weighted
\* average rounded to the scale, and moves convert_from(qty, price) *
\* init_margin_req from the wallet to the position margin, leaving the
\* treasury and the fee account alone.
C7_OpenIncrease ==
  [][ (status' = "ok" /\ last'.op \in {"new", "increase"}) =>
        LET old == IF last'.op = "new" THEN Default ELSE pos
            total == old.quantity + last'.qty
            weighted == old.entry_price * old.quantity + last'.price * last'.qty
            margin == DecMul(convert_from(last'.qty, last'.price), init_margin_req)
        IN  /\ pos'.quantity = total
            /\ pos'.outstanding_fees = old.outstanding_fees + last'.fee
            /\ 2 * Abs(pos'.entry_price * total - weighted) <= total
            /\ balances'[USER_WALLET_ACCOUNT] = Wallet - margin
            /\ balances'[USER_POSITION_MARGIN_ACCOUNT] = PositionMargin + margin
            /\ balances'[TREASURY_ACCOUNT] = Treasury
            /\ balances'[EXCHANGE_FEE_ACCOUNT] = ExchangeFee ]_vars

\* C7 witness: a completed increase of an open position at another price, with
\* fees accrued and margin locked.
C7_Witness ==
  /\ Completed("increase")
  /\ pos.quantity > last.qty
  /\ pos.entry_price # last.price
  /\ pos.outstanding_fees = 2
  /\ Touching(USER_POSITION_MARGIN_ACCOUNT) # {}
  /\ last.journal[1].amount > 0

\* C8: a completed decrease moves realized = pnl(entry_price, exit_price,
\* side_mult * qty) from the treasury to the wallet when positive, its
\* absolute value from the wallet to the treasury when negative, and nothing
\* when zero; a long never loses when exit > entry and a short never loses
\* when exit < entry.
C8_RealizedPnl ==
  [][ (status' = "ok" /\ last'.op = "decrease") =>
        LET realized == pnl(pos.entry_price, last'.price, last'.mult * last'.qty)
            j == last'.journal
            moved == {i \in 1..Len(j) :
                        j[i].debit = TREASURY_ACCOUNT \/ j[i].credit = TREASURY_ACCOUNT}
        IN  /\ balances'[TREASURY_ACCOUNT] = Treasury - realized
            /\ realized > 0 =>
                 /\ moved = {1}
                 /\ j[1] = Transaction(USER_WALLET_ACCOUNT, TREASURY_ACCOUNT, realized)
            /\ realized < 0 =>
                 /\ moved = {1}
                 /\ j[1] = Transaction(TREASURY_ACCOUNT, USER_WALLET_ACCOUNT, 0 - realized)
            /\ realized = 0 => moved = {}
            /\ (last'.mult = 1 /\ last'.price > pos.entry_price) => realized >= 0
            /\ (last'.mult = -1 /\ last'.price < pos.entry_price) => realized >= 0 ]_vars

\* C8 witness: a short closed below its entry price has been paid its gain by
\* the treasury.
C8_Witness ==
  /\ Completed("decrease")
  /\ last.mult = -1
  /\ last.price < pos.entry_price
  /\ Len(last.journal) >= 1
  /\ last.journal[1].debit = USER_WALLET_ACCOUNT
  /\ last.journal[1].credit = TREASURY_ACCOUNT
  /\ last.journal[1].amount > 0

\* C9 (as claimed): in a linear market the position margin equals
\* convert_from(quantity, entry_price) * init_margin_req after every open,
\* increase or decrease.
C9_LinearMarginIsCostShare ==
  (kind = "Linear" /\ status = "ok") =>
    PositionMargin = DecMul(convert_from(pos.quantity, pos.entry_price), init_margin_req)

\* C10 (as claimed): on a decrease, when outstanding_fees is positive after
\* adding the fee, the accrued fees move from the fee account to the wallet and
\* outstanding_fees is then zero.
C10_FeesFromExchangeToWallet ==
  [][ (status' = "ok" /\ last'.op = "decrease"
       /\ pos.outstanding_fees + last'.fee > 0) =>
        LET accrued == pos.outstanding_fees + last'.fee
            j == last'.journal
        IN  /\ j[Len(j)] = Transaction(USER_WALLET_ACCOUNT, EXCHANGE_FEE_ACCOUNT, accrued)
            /\ balances'[EXCHANGE_FEE_ACCOUNT] = ExchangeFee - accrued
            /\ pos'.outstanding_fees = 0 ]_vars

\* C10 (amended): on a completed decrease, when outstanding_fees is positive
\* after adding the fee, the accrued fees move from the wallet to the fee
\* account as the last transfer of the call, and outstanding_fees is then zero.
C10_FeesFromWalletToExchange ==
  [][ (status' = "ok" /\ last'.op = "decrease"
       /\ pos.outstanding_fees + last'.fee > 0) =>
        LET accrued == pos.outstanding_fees + last'.fee
            j == last'.journal
        IN  /\ j[Len(j)] = Transaction(EXCHANGE_FEE_ACCOUNT, USER_WALLET_ACCOUNT, accrued)
            /\ \A i \in 1..(Len(j) - 1) :
                 j[i].debit # EXCHANGE_FEE_ACCOUNT /\ j[i].credit # EXCHANGE_FEE_ACCOUNT
            /\ balances'[EXCHANGE_FEE_ACCOUNT] = ExchangeFee + accrued
            /\ pos'.outstanding_fees = 0 ]_vars

\* C10 witness: a completed decrease has paid two calls' accrued fees into the
\* fee account.
C10_Witness ==
  /\ Completed("decrease")
  /\ Len(last.journal) >= 1
  /\ last.journal[Len(last.journal)] =
       Transaction(EXCHANGE_FEE_ACCOUNT, USER_WALLET_ACCOUNT, 2)
  /\ pos.outstanding_fees = 0

\* the notional of the checked position at the mid price
MarkNotional == convert_from(risk.size, risk.mid_price)

\* C11 (as claimed): the maintenance-margin check returns Liquidate exactly
\* when the notional at the mid price is below position_margin + notional *
\* maintenance rate, and Ok otherwise.
C11_LiquidateBelowMarginPlusMaintenance ==
  risk.check = "maintenance" =>
    /\ risk.outcome \in {"Liquidate", "Ok"}
    /\ risk.outcome = "Liquidate" <=>
         100 * MarkNotional < 100 * risk.position_margin + MaintenanceRatePct * MarkNotional

\* C12 (as claimed): a long of 5 Base with position margin 100 is reported as
\* Liquidate once the mid price has moved to 81.
C12_LiquidationScenario ==
  ( /\ kind = "Linear"
    /\ risk.size = 5 * SCALE
    /\ risk.position_margin = 100 * SCALE
    /\ risk.mid_price = 81 * SCALE
    /\ risk.check = "maintenance" ) => risk.outcome = "Liquidate"

\* C13 (as claimed): check_required_margin always returns either the margin
\* pair or the error NotEnoughAvailableBalance.
C13_RequiredMarginReturns ==
  risk.check = "required" => risk.outcome \in {"Ok", "NotEnoughAvailableBalance"}

C15_PnlSymmetry ==
  law.evaluated => law.result + law.mirrored = 0

\* an inverse pnl whose legs were rounded, and its mirror image
C15_Witness ==
  /\ law.evaluated /\ kind = "Inverse" /\ law.result > 0 /\ law.mirrored < 0
  /\ (law.qty * SCALE) % law.exit # 0

\* C16: pnl(p, p, q) = 0 for every price p > 0 and signed quantity q, for the
\* kind at hand, and a decrease at an exit price equal to the entry price posts
\* no transfer with the treasury
C16_PnlZero ==
  /\ \A p \in ExitPrices, q \in (0 - MaxQty)..MaxQty : pnl(p, p, q) = 0
  /\ (last.op = "decrease" /\ last.price = pos.entry_price) =>
       Touching(TREASURY_ACCOUNT) = {}

\* a completed decrease of a short at its entry price, which freed margin
C16_Witness ==
  /\ Completed("decrease") /\ last.mult = -1 /\ last.price = pos.entry_price
  /\ Touching(USER_POSITION_MARGIN_ACCOUNT) # {}

\* the step C17 is about: the call right after a completed new is an increase
\* by a quantity of 0
IncreaseByZeroAfterOpen ==
  /\ last.op = "new" /\ status = "ok"
  /\ nops' = nops + 1 /\ last'.op = "increase" /\ last'.qty = 0

\* C17 (as stated): after opening qty at price p, an increase by a quantity of
\* 0 completes and leaves entry_price, quantity and the balances unchanged
C17_IncreaseByZeroCompletes ==
  [][IncreaseByZeroAfterOpen =>
       /\ status' = "ok"
       /\ pos'.entry_price = pos.entry_price
       /\ pos'.quantity = pos.quantity
       /\ balances' = balances]_vars

\* C17 (amended): after opening qty at price p, an increase by a quantity of 0
\* fails its assertion; the position (entry_price == p included) and the
\* balances are as the open left them
C17_IncreaseByZeroPanics ==
  [][IncreaseByZeroAfterOpen =>
       /\ status' = "panic_assert"
       /\ pos' = pos
       /\ balances' = balances]_vars

\* an increase by 0 right after an open has been rejected
C17_Witness ==
  /\ last.op = "increase" /\ last.qty = 0 /\ last.price > 0 /\ opened.since = 1
  /\ status = "panic_assert"
  /\ pos.quantity = opened.qty /\ pos.entry_price = opened.price /\ opened.qty > 0

\* C19: entry_price is strictly positive in every reachable state in which
\* quantity is not 0
C19_EntryPricePositive == pos.quantity # 0 => pos.entry_price > 0

\* an increase has left a weighted average that is none of the prices given:
\* it was rounded to the decimal scale
C19_Witness ==
  /\ Completed("increase") /\ pos.quantity # 0
  /\ pos.entry_price \notin Prices

DrawdownLeq(a, b) == a.num * b.den <= b.num * a.den

\* C20: max_drawdown() is 0 on a new AccTracker and never decreases from one
\* log_rpnl or log_trade call to the next
C20_DrawdownMonotone ==
  [][/\ tracker.calls = 0 => (tracker.max_drawdown.num = 0 /\ tracker.max_drawdown.den > 0)
     /\ ~IsNaN(tracker'.max_drawdown)
     /\ DrawdownLeq(tracker.max_drawdown, tracker'.max_drawdown)]_vars

\* after a drawdown the wallet is back at its high and a trade was logged:
\* the current drawdown is 0 and max_drawdown still holds the earlier one
C20_Witness ==
  /\ tracker.calls >= 2 /\ tracker.num_trades > 0
  /\ tracker.wallet_balance = tracker.wb_high /\ tracker.wb_high > 0
  /\ tracker.max_drawdown.num > 0 /\ tracker.max_drawdown.den > 0

\* the sizes of the logged trades, summed in f64 in the order of the calls
RECURSIVE SumOfSizes(_)
SumOfSizes(trades) ==
  IF trades = <<>> THEN 0
  ELSE f64(SumOfSizes(SubSeq(trades, 1, Len(trades) - 1)) + trades[Len(trades)].size)

BuysAmong(trades) == Cardinality({i \in 1..Len(trades) : trades[i].side = "Buy"})

\* C21: num_trades is the number of log_trade calls, num_buys the number of
\* them with side Buy and turnover the sum of their sizes; so
\* 0 <= num_buys <= num_trades, and buy_ratio is num_buys / num_trades
C21_TradeTotals ==
  /\ tracker.num_trades = Len(tracker.trades)
  /\ tracker.num_buys = BuysAmong(tracker.trades)
  /\ tracker.total_turnover = SumOfSizes(tracker.trades)
  /\ 0 <= tracker.num_buys /\ tracker.num_buys <= tracker.num_trades
  /\ buy_ratio(tracker) = Quotient(BuysAmong(tracker.trades), Len(tracker.trades))

\* buys and sells were logged, with realized pnl logged in between
C21_Witness ==
  /\ tracker.num_trades >= 3
  /\ 0 < tracker.num_buys /\ tracker.num_buys < tracker.num_trades
  /\ tracker.rpnls # <<>>

\* the step is a call of op
Calls(op) == nops' = nops + 1 /\ last'.op = op

\* the call of this step violates a precondition of its operation
PreconditionViolated ==
  \/ (Calls("new") \/ Calls("increase")) /\ (last'.qty <= 0 \/ last'.price <= 0)
  \/ Calls("decrease") /\ (last'.qty <= 0 \/ last'.qty > pos.quantity)

\* C22: new and increase_contracts abort when qty <= 0 or price <= 0, and
\* decrease_contracts aborts when qty <= 0 or qty exceeds the position quantity,
\* in each case before any position field or ledger balance has changed
C22_RejectedBeforeAnyEffect ==
  [][PreconditionViolated =>
       /\ status' = "panic_assert"
       /\ pos' = pos
       /\ balances' = balances
       /\ last'.journal = <<>>]_vars

\* a decrease by more than the position holds was rejected, with accrued fees
\* and locked margin left in place
C22_Witness ==
  /\ last.op = "decrease" /\ status = "panic_assert"
  /\ last.qty > pos.quantity /\ pos.quantity > 0
  /\ last.fee # 0 /\ pos.outstanding_fees # 0 /\ PositionMargin > 0

\* C23: decrease_contracts never changes entry_price, whether the decrease is
\* partial or full, at any exit price and with either direction multiplier
C23_DecreaseKeepsEntryPrice ==
  [][Calls("decrease") => pos'.entry_price = pos.entry_price]_vars

\* a short was closed in full at a price other than its entry price, and the
\* flat position still holds that entry price
C23_Witness ==
  /\ FlatAfterDecrease /\ last.mult = -1
  /\ pos.entry_price > 0 /\ pos.entry_price # last.price

\* C24: an increase applied to a flat position sets entry_price to exactly the
\* fill price and locks the margin of the fill alone, whatever entry_price the
\* closed position has left behind
C24_IncreaseFromFlatIgnoresStalePrice ==
  [][(Calls("increase") /\ pos.quantity = 0 /\ status' = "ok") =>
       /\ pos'.entry_price = last'.price
       /\ pos'.quantity = last'.qty
       /\ last'.journal =
            <<Transaction(USER_POSITION_MARGIN_ACCOUNT, USER_WALLET_ACCOUNT,
                          DecMul(convert_from(last'.qty, last'.price), init_margin_req))>>
       /\ balances'[USER_POSITION_MARGIN_ACCOUNT] - balances[USER_POSITION_MARGIN_ACCOUNT]
            = DecMul(convert_from(last'.qty, last'.price), init_margin_req)]_vars

\* a position opened at one price was closed, and an increase at another price
\* has reopened it
C24_Witness ==
  /\ Completed("increase") /\ opened.since = 2
  /\ opened.price > 0 /\ opened.price # last.price
  /\ pos.quantity = last.qty /\ pos.entry_price = last.price
  /\ PositionMargin > 0

\* where a transfer of a decrease stands in the order of the call
TransferRank(t) ==
  IF TREASURY_ACCOUNT \in {t.debit, t.credit} THEN 1
  ELSE IF t = Transaction(USER_WALLET_ACCOUNT, USER_POSITION_MARGIN_ACCOUNT, t.amount) THEN 2
  ELSE IF EXCHANGE_FEE_ACCOUNT \in {t.debit, t.credit} THEN 3
  ELSE 0

\* the loss the decrease of this step realizes, 0 when it realizes none
LossOfDecrease ==
  LET realized == realized_pnl(pos.entry_price, last'.price, last'.qty, last'.mult)
  IN  IF realized < 0 THEN 0 - realized ELSE 0

\* C25: a decrease posts its transfers in the order realized pnl, margin
\* release, fee settlement, at most one of each; quantity and outstanding_fees
\* are updated before the first transfer; a realized loss is debited from the
\* wallet as it stood before the released margin is credited
C25_DecreaseTransferOrder ==
  [][(Calls("decrease") /\ ~PreconditionViolated /\ status' # "panic_debug") =>
       /\ \A i \in 1..Len(last'.journal) :
            /\ TransferRank(last'.journal[i]) > 0
            /\ \A j \in (i + 1)..Len(last'.journal) :
                 TransferRank(last'.journal[i]) < TransferRank(last'.journal[j])
       /\ pos'.quantity = pos.quantity - last'.qty
       /\ status' = "panic_transfer" =>
            pos'.outstanding_fees = pos.outstanding_fees + last'.fee
       /\ LossOfDecrease > balances[USER_WALLET_ACCOUNT] =>
            (status' = "panic_transfer" /\ last'.journal = <<>>)]_vars

\* a decrease stopped at its loss, which the wallet could not pay although the
\* wallet and the margin about to be released together could
C25_Witness ==
  LET loss == 0 - realized_pnl(pos.entry_price, last.price, last.qty, last.mult)
      margin_to_free == DecMul(convert_from(last.qty, pos.entry_price), init_margin_req)
  IN  /\ last.op = "decrease" /\ status = "panic_transfer" /\ last.journal = <<>>
      /\ loss > Wallet /\ loss <= Wallet + margin_to_free

\* the wallet balance tracked after the first k log_rpnl calls
RECURSIVE WalletAfter(_)
WalletAfter(k) ==
  IF k = 0 THEN tracker.starting_wb ELSE f64(WalletAfter(k - 1) + tracker.rpnls[k])

\* the logged amounts, summed in f64 in the order of the calls
RECURSIVE SumOfAmounts(_)
SumOfAmounts(k) == IF k = 0 THEN 0 ELSE f64(SumOfAmounts(k - 1) + tracker.rpnls[k])

\* the highest wallet balance tracked up to the k-th log_rpnl call
HighAfter(k) ==
  CHOOSE h \in {WalletAfter(j) : j \in 0..k} : \A j \in 0..k : WalletAfter(j) <= h

\* (wb_high - wallet_balance) / wb_high as it stood after the k-th call
DrawdownAfter(k) == Quotient(f64(HighAfter(k) - WalletAfter(k)), HighAfter(k))

\* wb_high is the highest wallet balance tracked so far, the starting one included
HighIsMaxOfHistory == tracker.wb_high = HighAfter(Len(tracker.rpnls))

\* max_drawdown is the largest of the drawdowns after each call, 0 before the first
DrawdownIsMaxOfHistory ==
  LET n == Len(tracker.rpnls)
  IN  /\ \A k \in 1..n : DrawdownLeq(DrawdownAfter(k), tracker.max_drawdown)
      /\ \/ tracker.max_drawdown.num = 0
         \/ \E k \in 1..n : /\ DrawdownLeq(DrawdownAfter(k), tracker.max_drawdown)
                             /\ DrawdownLeq(tracker.max_drawdown, DrawdownAfter(k))

\* C26: on a tracker created with starting balance w0 > 0, the wallet balance
\* is w0 plus the sum of the logged amounts, which is w0 + total_rpnl; wb_high
\* is the highest wallet balance so far; max_drawdown is the largest drawdown
\* (wb_high - wallet_balance) / wb_high seen after any call
C26_RpnlTotals ==
  tracker.starting_wb > 0 =>
    /\ tracker.total_rpnl = SumOfAmounts(Len(tracker.rpnls))
    /\ tracker.wallet_balance = f64(tracker.starting_wb + tracker.total_rpnl)
    /\ HighIsMaxOfHistory
    /\ DrawdownIsMaxOfHistory
====
